---- MODULE Spec2Model ----
(***************************************************************************)
(* Model of the OKX crypto spot screener: the two pattern detectors        *)
(* (screener/buyonbreakout.py, screener/rising3methods.py), the per-symbol *)
(* scan loops, the dispatcher (cmd.py) and the command line entry point    *)
(* (main.py).                                                              *)
(*                                                                         *)
(* Prices and volumes are integers.  Every comparison the detectors make   *)
(* between two quotients is made here by cross-multiplication, which is    *)
(* what the floating point code computes on integer-valued candles of      *)
(* this size.                                                              *)
(***************************************************************************)
EXTENDS Integers, Sequences, FiniteSets, TLC

VARIABLES
    pc,            \* position of the process
    entry,         \* "cli" (python main.py ...) or "call" (run_screener(...) called directly)
    strategy,      \* strategy name given by the user
    timeframe,     \* timeframe given by the user
    top_n,         \* Optional[int]: <<>> is None, <<n>> is the integer n
    exit_status,   \* <<>> while running, <<code>> once the process has ended
    exchange,      \* TRUE once get_exchange() has built the client
    markets,       \* <<>> until load_markets() answered, then <<the markets mapping>>
    volume24h,     \* the exchange's traded volume per symbol (never read by the code)
    symbols,       \* run_screener's local `symbols`
    loop_i,        \* run()'s loop index: how many symbols the loop has taken
    fetched,       \* history: the fetch_ohlcv calls made so far, with their outcomes
    ohlcv,         \* the candle series under analysis
    result,        \* what analyze() did with ohlcv
    run_results,   \* run()'s local `results`
    results,       \* run_screener's local `results`
    printed,       \* <<>> until print_results() ran, then <<what it rendered>>
    return_value,  \* what run_screener handed back to its caller
    webhook_url,   \* DiscordNotifier.webhook_url
    posted,        \* history: the messages handed to the webhook, with the answers
    success,       \* send_results's local `success`
    chunks,        \* send_results's local `chunks`
    chunk_index,   \* how many chunks the loop of send_results has taken
    send_return    \* <<>> until send_results ended, then <<what it returned or raised>>

vars == <<pc, entry, strategy, timeframe, top_n, exit_status, exchange, markets,
          volume24h, symbols, loop_i, fetched, ohlcv, result, run_results, results,
          printed, return_value, webhook_url, posted, success, chunks, chunk_index,
          send_return>>

notifyVars == <<webhook_url, posted, success, chunks, chunk_index, send_return>>

progVars == <<pc, entry, strategy, timeframe, top_n, exit_status, exchange, markets,
              volume24h, symbols, loop_i, fetched, run_results, results, printed,
              return_value>>

----------------------------------------------------------------------------
(* Python helpers *)

Min2(a, b) == IF a < b THEN a ELSE b
Max2(a, b) == IF a > b THEN a ELSE b
Abs(x) == IF x < 0 THEN -x ELSE x

\* s[start:stop] on a list: negative indices count from the end, and both
\* ends are clamped to the list.
PySlice(s, start, stop) ==
    LET n == Len(s)
        norm(i) == IF i < 0 THEN Max2(i + n, 0) ELSE Min2(i, n)
    IN  SubSeq(s, norm(start) + 1, norm(stop))

RECURSIVE PyMax(_)
PyMax(s) == IF Len(s) = 1 THEN s[1] ELSE Max2(s[1], PyMax(Tail(s)))

RECURSIVE PySum(_)
PySum(s) == IF s = <<>> THEN 0 ELSE s[1] + PySum(Tail(s))

\* A rounding that cuts the quotient off after the second decimal.
PyRound2_truncate(n, d) == (100 * n) \div d

\* round(n / d, 2) for n >= 0, d > 0, in hundredths.  Python rounds the
\* quotient to the nearest hundredth and a quotient exactly half way between
\* two hundredths to the even one.
PyRound2(n, d) ==
    LET q == (100 * n) \div d
        r == (100 * n) % d
    IN  IF 2 * r < d THEN q
        ELSE IF 2 * r > d THEN q + 1
        ELSE IF q % 2 = 0 THEN q ELSE q + 1

\* One candle [timestamp, open, high, low, close, volume].
Candle(ts, o, h, l, c, v) ==
    [timestamp |-> ts, open |-> o, high |-> h, low |-> l, close |-> c, volume |-> v]

\* What a call of analyze() can do: return None, return a dict, or raise.
None == [signal |-> "None"]
Raise(e) == [signal |-> "raise", error |-> e]
IsSignal(r) == r.signal \notin {"None", "raise", "pending"}
Pending == [signal |-> "pending"]

----------------------------------------------------------------------------
(* screener/buyonbreakout.py *)

MIN_CANDLES == 22
LOOKBACK_START == 21

buyonbreakout_analyze_short21(o) ==
    IF Len(o) < 21 THEN None
    ELSE LET cl == PySlice([i \in 1..Len(o) |-> o[i].close], -LOOKBACK_START, -1)
             vo == PySlice([i \in 1..Len(o) |-> o[i].volume], -LOOKBACK_START, -1)
         IN  IF o[Len(o)].close > PyMax(cl)
                /\ o[Len(o)].volume * Len(vo) > PySum(vo)
             THEN [signal |-> "BUY_ON_BREAKOUT", close |-> o[Len(o)].close,
                   volume |-> o[Len(o)].volume, prev_high |-> PyMax(cl),
                   avg_volume |-> [num |-> PySum(vo), den |-> Len(vo)],
                   vol_ratio |-> 0]
             ELSE None

buyonbreakout_analyze(o) ==
    IF Len(o) < MIN_CANDLES THEN None
    ELSE
      LET closes == [i \in 1..Len(o) |-> o[i].close]
          volumes == [i \in 1..Len(o) |-> o[i].volume]
          current_close == closes[Len(closes)]
          current_volume == volumes[Len(volumes)]
          lookback_closes == PySlice(closes, -LOOKBACK_START, -1)
          lookback_volumes == PySlice(volumes, -LOOKBACK_START, -1)
          highest_close == PyMax(lookback_closes)
          \* avg_volume is the quotient num / den
          avg_volume == [num |-> PySum(lookback_volumes), den |-> Len(lookback_volumes)]
          price_breakout == current_close > highest_close
          volume_confirmation == current_volume * avg_volume.den > avg_volume.num
      IN  IF price_breakout /\ volume_confirmation
          THEN IF avg_volume.num = 0
               THEN Raise("ZeroDivisionError")   \* current_volume / avg_volume
               ELSE [signal |-> "BUY_ON_BREAKOUT",
                     close |-> current_close,
                     volume |-> current_volume,
                     prev_high |-> highest_close,
                     avg_volume |-> avg_volume,
                     vol_ratio |-> PyRound2(current_volume * avg_volume.den,
                                            avg_volume.num)]
          ELSE None

----------------------------------------------------------------------------
(* Candle series the breakout detector is run on *)

MaxLen == 23          \* longest series
MaxVolume == 7        \* largest volume of the current candle
BaseClose == 10       \* close of an ordinary candle
CloseSpread == 3      \* closes range over BaseClose - 1 .. BaseClose + CloseSpread
SpikeVolume == 20     \* extra volume of the marked candle

\* The marked candle sits `off` candles from the end (1 is the current one):
\* anywhere in the 20-candle lookback or before it.
MarkOffsets == 2..MaxLen

BreakoutSeries(len, off, peak, spike, base_vol, cur_close, cur_vol) ==
    [i \in 1..len |->
        IF i = len THEN Candle(i, cur_close, cur_close, cur_close, cur_close, cur_vol)
        ELSE IF i = len - off + 1
             THEN Candle(i, peak, peak, peak, peak, base_vol + spike)
             ELSE Candle(i, BaseClose, BaseClose, BaseClose, BaseClose, base_vol)]

----------------------------------------------------------------------------
(* screener/rising3methods.py *)

\* The two ratios are in tenths: 0.6 and 0.5.
LARGE_CANDLE_BODY_RATIO == 6
SMALL_CANDLE_MAX_BODY_RATIO == 5

is_bullish(candle) == candle.close > candle.open
body_size(candle) == Abs(candle.close - candle.open)
candle_range(candle) == candle.high - candle.low

\* (n / d) < k tenths and (n / d) > k tenths, for d # 0
QuotientBelow(n, d, k) ==
    IF d > 0 THEN 10 * n < k * d ELSE 10 * n > k * d
QuotientAbove(n, d, k) ==
    IF d > 0 THEN 10 * n > k * d ELSE 10 * n < k * d

rising3methods_analyze_first_five(o) ==
    IF Len(o) < 5 THEN None
    ELSE IF /\ is_bullish(o[1]) /\ candle_range(o[1]) # 0
            /\ ~QuotientBelow(body_size(o[1]), candle_range(o[1]), LARGE_CANDLE_BODY_RATIO)
            /\ \A k \in 2..4 :
                 /\ o[k].close > o[1].open /\ o[k].close < o[1].close
                 /\ o[k].open > o[1].open /\ o[k].open < o[1].close
                 /\ ~QuotientAbove(body_size(o[k]), body_size(o[1]),
                                   SMALL_CANDLE_MAX_BODY_RATIO)
            /\ is_bullish(o[5])
            /\ ~(candle_range(o[5]) > 0
                 /\ QuotientBelow(body_size(o[5]), candle_range(o[5]),
                                  LARGE_CANDLE_BODY_RATIO))
            /\ o[5].close > o[1].close
         THEN [signal |-> "RISING_3_METHODS", close |-> o[5].close,
               volume |-> o[5].volume, c1_close |-> o[1].close,
               c5_close |-> o[5].close]
         ELSE None

\* A detector that treats a fifth candle of range 0 as it treats a first one.
rising3methods_analyze_symmetric(o) ==
    IF Len(o) < 5 THEN None
    ELSE
      LET n == Len(o)
          c1 == o[n - 4]
          c5 == o[n]
          cx_fails(cx) ==
              \/ cx.close <= c1.open \/ cx.close >= c1.close
              \/ cx.open <= c1.open \/ cx.open >= c1.close
              \/ (body_size(c1) > 0
                  /\ QuotientAbove(body_size(cx), body_size(c1),
                                   SMALL_CANDLE_MAX_BODY_RATIO))
      IN  IF ~is_bullish(c1) THEN None
          ELSE IF candle_range(c1) = 0 THEN None
          ELSE IF QuotientBelow(body_size(c1), candle_range(c1),
                                LARGE_CANDLE_BODY_RATIO) THEN None
          ELSE IF cx_fails(o[n - 3]) \/ cx_fails(o[n - 2]) \/ cx_fails(o[n - 1])
               THEN None
          ELSE IF ~is_bullish(c5) THEN None
          ELSE IF candle_range(c5) = 0 THEN None
          ELSE IF QuotientBelow(body_size(c5), candle_range(c5),
                                LARGE_CANDLE_BODY_RATIO) THEN None
          ELSE IF c5.close <= c1.close THEN None
          ELSE [signal |-> "RISING_3_METHODS",
                close |-> c5.close,
                volume |-> c5.volume,
                c1_close |-> c1.close,
                c5_close |-> c5.close]

rising3methods_analyze(o) ==
    IF Len(o) < 5 THEN None
    ELSE
      LET n == Len(o)
          c1 == o[n - 4]
          c2 == o[n - 3]
          c3 == o[n - 2]
          c4 == o[n - 1]
          c5 == o[n]
          c1_open == c1.open
          c1_close == c1.close
          c5_close == c5.close
          c1_body == body_size(c1)
          c1_range == candle_range(c1)
          \* one turn of the loop over (c2, c3, c4): TRUE when it returns None
          cx_fails(cx) ==
              \/ cx.close <= c1_open \/ cx.close >= c1_close
              \/ cx.open <= c1_open \/ cx.open >= c1_close
              \/ (c1_body > 0
                  /\ QuotientAbove(body_size(cx), c1_body, SMALL_CANDLE_MAX_BODY_RATIO))
          c5_body == body_size(c5)
          c5_range == candle_range(c5)
      IN  IF ~is_bullish(c1) THEN None
          ELSE IF c1_range = 0 THEN None
          ELSE IF QuotientBelow(c1_body, c1_range, LARGE_CANDLE_BODY_RATIO) THEN None
          ELSE IF cx_fails(c2) \/ cx_fails(c3) \/ cx_fails(c4) THEN None
          ELSE IF ~is_bullish(c5) THEN None
          ELSE IF c5_range > 0
                  /\ QuotientBelow(c5_body, c5_range, LARGE_CANDLE_BODY_RATIO)
               THEN None
          ELSE IF c5_close <= c1_close THEN None
          ELSE [signal |-> "RISING_3_METHODS",
                close |-> c5_close,
                volume |-> c5.volume,
                c1_close |-> c1_close,
                c5_close |-> c5_close]

----------------------------------------------------------------------------
(* Candle series the rising-three detector is run on *)

MaxPrefix == 1        \* candles before the last five
MaxWick == 4          \* largest wick on each side of a body
C1Open == 10
C5Open == 14
RisingVolume == 7

\* A candle with the given open and close; mode -1 is a candle whose high
\* equals its low (range 0), mode w >= 0 adds a wick of w on both sides.
Shaped(o, c, mode) ==
    IF mode = -1 THEN Candle(0, o, c, c, c, RisingVolume)
    ELSE Candle(0, o, Max2(o, c) + mode, Min2(o, c) - mode, c, RisingVolume)

C1Candles ==
    { Shaped(C1Open, c, m) : c \in {C1Open - 1, C1Open, C1Open + 6, C1Open + 10},
                             m \in {-1, 0, 2, MaxWick} }
C5Candles ==
    { Shaped(o, c, m) : o \in {C5Open, C5Open + 8},
                        c \in {C5Open - 1, C5Open + 2, C5Open + 3,
                               C5Open + 6, C5Open + 7},
                        m \in {-1, 0, 1, MaxWick - 1} }
MidCandles ==
    { Shaped(o, c, 0) : o \in {C1Open, C1Open + 1, C1Open + 2, C1Open + 6},
                        c \in {C1Open, C1Open + 5, C1Open + 6, C1Open + 7,
                               C1Open + 10} }
MidFew == { Shaped(C1Open + 2, C1Open + 5, 0), Shaped(C1Open + 1, C1Open + 7, 0),
            Shaped(C1Open + 2, C1Open, 0) }
C1Few == { Shaped(C1Open, C1Open + 6, 2), Shaped(C1Open, C1Open + 10, 0) }
C5Few == { Shaped(C5Open, C5Open + 7, 0), Shaped(C5Open, C5Open + 3, MaxWick - 1) }

\* What may stand before the last five candles.
Prefixes ==
    UNION { [1..k -> { Shaped(C1Open, C1Open + 10, 0), Shaped(C1Open, C1Open, 0) }] :
            k \in 0..MaxPrefix }

----------------------------------------------------------------------------
(* The state before anything ran *)

\* No notifier has been built.
NotifyIdle ==
    /\ webhook_url = ""
    /\ posted = <<>>
    /\ success = FALSE
    /\ chunks = <<>>
    /\ chunk_index = 0
    /\ send_return = <<>>

ProgInit ==
    /\ pc = "start"
    /\ entry = "none"
    /\ strategy = ""
    /\ timeframe = ""
    /\ top_n = <<>>
    /\ exit_status = <<>>
    /\ exchange = FALSE
    /\ markets = <<>>
    /\ volume24h = <<>>
    /\ symbols = <<>>
    /\ loop_i = 0
    /\ fetched = <<>>
    /\ run_results = <<>>
    /\ results = <<>>
    /\ printed = <<>>
    /\ return_value = [kind |-> "pending"]
    /\ NotifyIdle

----------------------------------------------------------------------------
(* main.py *)

VALID_STRATEGIES == {"buyonbreakout", "rising3methods"}
VALID_TIMEFRAMES == {"1m", "3m", "5m", "15m"}

NumSymbols == 3       \* markets the exchange lists
MaxTop == 2           \* largest --top

\* What a user may type.
StrategyArgs == VALID_STRATEGIES \cup {"macross"}
TimeframeArgs == {"1m", "15m", "4H", "1D"}
TopArgs == {<<>>} \cup { <<n>> : n \in 0..MaxTop }

\* main(), up to the call of run_screener: parse_args() ends the process with
\* status 2 when --strategy or --tf is not among the choices.
ParseArgs ==
    /\ pc = "start"
    /\ \E s \in StrategyArgs, tf \in TimeframeArgs, top \in TopArgs :
         /\ entry' = "cli"
         /\ strategy' = s
         /\ timeframe' = tf
         /\ top_n' = top
         /\ IF s \in VALID_STRATEGIES /\ tf \in VALID_TIMEFRAMES
            THEN pc' = "main" /\ UNCHANGED exit_status
            ELSE pc' = "exited" /\ exit_status' = <<2>>
    /\ UNCHANGED <<exchange, markets, volume24h, symbols, loop_i, fetched, ohlcv, result,
                   run_results, results, printed, return_value>>
    /\ UNCHANGED notifyVars

\* main() calls run_screener(strategy=, timeframe=, limit=, quote=, top_n=,
\* webhook_url=): run_screener takes no webhook_url, so the call raises
\* TypeError before the body runs and the interpreter ends with status 1.
MainCallsRunScreener ==
    /\ pc = "main"
    /\ pc' = "exited"
    /\ exit_status' = <<1>>
    /\ return_value' = [kind |-> "raise", error |-> "TypeError"]
    /\ UNCHANGED <<entry, strategy, timeframe, top_n, exchange, markets, volume24h,
                   symbols, loop_i, fetched, ohlcv, result, run_results, results, printed>>
    /\ UNCHANGED notifyVars

----------------------------------------------------------------------------
(* cmd.py *)

STRATEGY_MAP == {"buyonbreakout", "rising3methods"}
DEFAULT_QUOTE == "USDT"

\* Symbols are numbered in the lexicographic order of their names.
Symbols == 1..NumSymbols

\* One entry of the mapping load_markets() returns.
MarketKinds ==
    { [spot |-> TRUE, active |-> TRUE, quote |-> "USDT"],
      [spot |-> FALSE, active |-> TRUE, quote |-> "USDT"],
      [spot |-> TRUE, active |-> FALSE, quote |-> "USDT"],
      [spot |-> TRUE, active |-> TRUE, quote |-> "BTC"] }

\* Traded volume per symbol: growing with the name, or falling with it.
VolumeRankings ==
    { [s \in Symbols |-> s], [s \in Symbols |-> NumSymbols + 1 - s] }

RECURSIVE sorted(_)
sorted(set) ==
    IF set = {} THEN <<>>
    ELSE LET m == CHOOSE x \in set : \A y \in set : x <= y
         IN  <<m>> \o sorted(set \ {m})

\* run_screener(...) called directly, not through main().
CallRunScreener ==
    /\ pc = "start"
    /\ \E s \in StrategyArgs, tf \in {"1m", "4H"}, top \in TopArgs :
         /\ entry' = "call"
         /\ strategy' = s
         /\ timeframe' = tf
         /\ top_n' = top
    /\ pc' = "dispatch"
    /\ UNCHANGED <<exit_status, exchange, markets, volume24h, symbols, loop_i, fetched,
                   ohlcv, result, run_results, results, printed, return_value>>
    /\ UNCHANGED notifyVars

dispatch_no_exit ==
    /\ pc = "dispatch"
    /\ pc' = "get_exchange"
    /\ UNCHANGED <<entry, strategy, timeframe, top_n, exit_status, exchange, markets,
                   volume24h, symbols, loop_i, fetched, ohlcv, result, run_results, results,
                   printed, return_value>>
    /\ UNCHANGED notifyVars

\* runner = strategy_map.get(strategy); sys.exit(1) when there is none.
dispatch ==
    /\ pc = "dispatch"
    /\ IF strategy \in STRATEGY_MAP
       THEN pc' = "get_exchange" /\ UNCHANGED exit_status
       ELSE pc' = "exited" /\ exit_status' = <<1>>
    /\ UNCHANGED <<entry, strategy, timeframe, top_n, exchange, markets, volume24h,
                   symbols, loop_i, fetched, ohlcv, result, run_results, results, printed,
                   return_value>>
    /\ UNCHANGED notifyVars

get_exchange ==
    /\ pc = "get_exchange"
    /\ exchange' = TRUE
    /\ pc' = "fetch_spot_symbols"
    /\ UNCHANGED <<entry, strategy, timeframe, top_n, exit_status, markets, volume24h,
                   symbols, loop_i, fetched, ohlcv, result, run_results, results, printed,
                   return_value>>
    /\ UNCHANGED notifyVars

\* The symbols fetch_spot_symbols() returns for a markets mapping.
spot_symbols(m, quote) ==
    sorted({ s \in DOMAIN m :
               m[s].spot = TRUE /\ m[s].active = TRUE /\ m[s].quote = quote })

\* load_markets() answers, or raises: nothing in run_screener catches that.
fetch_spot_symbols ==
    /\ pc = "fetch_spot_symbols"
    /\ \/ \E m \in [Symbols -> MarketKinds], v \in VolumeRankings :
            /\ markets' = <<m>>
            /\ volume24h' = <<v>>
            /\ symbols' = spot_symbols(m, DEFAULT_QUOTE)
            /\ pc' = "top_n"
            /\ UNCHANGED <<exit_status, return_value>>
       \/ /\ pc' = "exited"
          /\ exit_status' = <<1>>
          /\ return_value' = [kind |-> "raise", error |-> "NetworkError"]
          /\ UNCHANGED <<markets, volume24h, symbols>>
    /\ UNCHANGED <<entry, strategy, timeframe, top_n, exchange, loop_i, fetched, ohlcv,
                   result, run_results, results, printed>>
    /\ UNCHANGED notifyVars

\* if top_n: symbols = symbols[:top_n]
top_n_slice(syms, top) ==
    IF top # <<>> /\ top[1] # 0 THEN PySlice(syms, 0, top[1]) ELSE syms

slice_top_n ==
    /\ pc = "top_n"
    /\ symbols' = top_n_slice(symbols, top_n)
    /\ pc' = "run"
    /\ UNCHANGED <<entry, strategy, timeframe, top_n, exit_status, exchange, markets,
                   volume24h, loop_i, fetched, ohlcv, result, run_results, results, printed,
                   return_value>>
    /\ UNCHANGED notifyVars

----------------------------------------------------------------------------
(* The scan loops: run() of screener/buyonbreakout.py and of                *)
(* screener/rising3methods.py                                               *)

\* Series the exchange may answer a fetch with: a breakout (20 closes of
\* BaseClose and volume 5, then BaseClose + 1 on volume 6), a breakout after
\* 20 candles without volume, and a rising-three window.
ScanBreakout == BreakoutSeries(22, 2, BaseClose, 0, 5, BaseClose + 1, 6)
ScanZeroMean == BreakoutSeries(22, 2, BaseClose, 0, 0, BaseClose + 1, 1)
ScanRising ==
    << Shaped(C1Open, C1Open + 10, 0),
       Shaped(C1Open + 5, C1Open + 6, 0), Shaped(C1Open + 5, C1Open + 6, 0),
       Shaped(C1Open + 5, C1Open + 6, 0),
       Shaped(C1Open + 8, C1Open + 15, 0) >>

\* exchange.fetch_ohlcv(): a series (possibly empty) or an exception.
FetchOutcomes ==
    { [kind |-> "ok", ohlcv |-> o] : o \in {<<>>, ScanBreakout, ScanZeroMean, ScanRising} }
    \cup
    { [kind |-> k, ohlcv |-> <<>>] : k \in {"NetworkError", "ExchangeError", "Exception"} }

\* result["symbol"] = symbol
with_symbol(r, symbol) ==
    [f \in DOMAIN r \cup {"symbol"} |-> IF f = "symbol" THEN symbol ELSE r[f]]

NotAnalysed == [signal |-> "not analysed"]

buyonbreakout_run_step_abort ==
    /\ pc = "run"
    /\ strategy = "buyonbreakout"
    /\ loop_i < Len(symbols)
    /\ \E out \in FetchOutcomes :
         /\ loop_i' = loop_i + 1
         /\ fetched' = Append(fetched, [symbol |-> symbols[loop_i + 1], outcome |-> out,
                                         analysed |-> NotAnalysed])
         /\ IF out.kind # "ok"
            THEN pc' = "exited" /\ exit_status' = <<1>>
            ELSE UNCHANGED <<pc, exit_status>>
    /\ UNCHANGED <<entry, timeframe, top_n, exchange, markets, volume24h,
                   strategy, symbols, ohlcv, result, run_results, results, printed,
                   return_value>>
    /\ UNCHANGED notifyVars

\* One turn of the loop of buyonbreakout.run(): fetch, analyze, append; every
\* exception raised in the turn is caught and the loop goes on.
buyonbreakout_run_step ==
    /\ pc = "run"
    /\ strategy = "buyonbreakout"
    /\ loop_i < Len(symbols)
    /\ \E out \in FetchOutcomes :
         LET symbol == symbols[loop_i + 1]
             analysed == IF out.kind = "ok" /\ out.ohlcv # <<>>
                         THEN buyonbreakout_analyze(out.ohlcv)
                         ELSE NotAnalysed
         IN  /\ loop_i' = loop_i + 1
             /\ fetched' = Append(fetched, [symbol |-> symbol, outcome |-> out,
                                             analysed |-> analysed])
             /\ IF out.kind = "ok"
                THEN ohlcv' = out.ohlcv
                ELSE UNCHANGED ohlcv
             /\ IF analysed.signal \in {"not analysed", "raise"}
                THEN UNCHANGED result
                ELSE result' = analysed
             /\ IF IsSignal(analysed) /\ analysed # NotAnalysed
                THEN run_results' = Append(run_results, with_symbol(analysed, symbol))
                ELSE UNCHANGED run_results
    /\ UNCHANGED <<pc, entry, strategy, timeframe, top_n, exit_status, exchange,
                   markets, volume24h, symbols, results, printed, return_value>>
    /\ UNCHANGED notifyVars

rising3methods_run_step_prepend ==
    /\ pc = "run"
    /\ strategy = "rising3methods"
    /\ loop_i < Len(symbols)
    /\ \E out \in FetchOutcomes :
         LET symbol == symbols[loop_i + 1]
             analysed == IF out.kind = "ok" /\ out.ohlcv # <<>>
                         THEN rising3methods_analyze(out.ohlcv)
                         ELSE NotAnalysed
         IN  /\ loop_i' = loop_i + 1
             /\ fetched' = Append(fetched, [symbol |-> symbol, outcome |-> out,
                                             analysed |-> analysed])
             /\ IF IsSignal(analysed) /\ analysed # NotAnalysed
                THEN run_results' = <<with_symbol(analysed, symbol)>> \o run_results
                ELSE UNCHANGED run_results
    /\ UNCHANGED <<pc, entry, strategy, timeframe, top_n, exit_status, exchange,
                   markets, volume24h, symbols, results, printed, return_value,
                   ohlcv, result>>
    /\ UNCHANGED notifyVars

\* One turn of the loop of rising3methods.run().
rising3methods_run_step ==
    /\ pc = "run"
    /\ strategy = "rising3methods"
    /\ loop_i < Len(symbols)
    /\ \E out \in FetchOutcomes :
         LET symbol == symbols[loop_i + 1]
             analysed == IF out.kind = "ok" /\ out.ohlcv # <<>>
                         THEN rising3methods_analyze(out.ohlcv)
                         ELSE NotAnalysed
         IN  /\ loop_i' = loop_i + 1
             /\ fetched' = Append(fetched, [symbol |-> symbol, outcome |-> out,
                                             analysed |-> analysed])
             /\ IF out.kind = "ok"
                THEN ohlcv' = out.ohlcv
                ELSE UNCHANGED ohlcv
             /\ IF analysed.signal \in {"not analysed", "raise"}
                THEN UNCHANGED result
                ELSE result' = analysed
             /\ IF IsSignal(analysed) /\ analysed # NotAnalysed
                THEN run_results' = Append(run_results, with_symbol(analysed, symbol))
                ELSE UNCHANGED run_results
    /\ UNCHANGED <<pc, entry, strategy, timeframe, top_n, exit_status, exchange,
                   markets, volume24h, symbols, results, printed, return_value>>
    /\ UNCHANGED notifyVars

\* The loop is over: run() returns its list to run_screener
\* (results = runner(exchange, symbols, timeframe, limit)).
run_return ==
    /\ pc = "run"
    /\ strategy \in STRATEGY_MAP
    /\ loop_i = Len(symbols)
    /\ results' = run_results
    /\ pc' = "print_results"
    /\ UNCHANGED <<entry, strategy, timeframe, top_n, exit_status, exchange, markets,
                   volume24h, symbols, loop_i, fetched, ohlcv, result, run_results, printed,
                   return_value>>
    /\ UNCHANGED notifyVars

\* The table print_results() writes: a row per result, in the list's order,
\* and the count.
rendered_reversed(rs, strat, tf) ==
    [strategy |-> strat, timeframe |-> tf,
     rows |-> [k \in 1..Len(rs) |->
                 [symbol |-> rs[Len(rs) + 1 - k].symbol,
                  signal |-> rs[Len(rs) + 1 - k].signal,
                  close |-> rs[Len(rs) + 1 - k].close,
                  volume |-> rs[Len(rs) + 1 - k].volume]],
     total |-> Len(rs)]

rendered(rs, strat, tf) ==
    [strategy |-> strat, timeframe |-> tf,
     rows |-> [k \in 1..Len(rs) |->
                 [symbol |-> rs[k].symbol, signal |-> rs[k].signal,
                  close |-> rs[k].close, volume |-> rs[k].volume]],
     total |-> Len(rs)]

print_results ==
    /\ pc = "print_results"
    /\ printed' = <<rendered(results, strategy, timeframe)>>
    /\ pc' = "return"
    /\ UNCHANGED <<entry, strategy, timeframe, top_n, exit_status, exchange, markets,
                   volume24h, symbols, loop_i, fetched, ohlcv, result, run_results, results,
                   return_value>>
    /\ UNCHANGED notifyVars

\* run_screener has no return statement: its caller gets None.
run_screener_return ==
    /\ pc = "return"
    /\ return_value' = [kind |-> "None"]
    /\ pc' = "returned"
    /\ UNCHANGED <<entry, strategy, timeframe, top_n, exit_status, exchange, markets,
                   volume24h, symbols, loop_i, fetched, ohlcv, result, run_results, results,
                   printed>>
    /\ UNCHANGED notifyVars

----------------------------------------------------------------------------
(* The program *)

Init ==
    /\ ProgInit
    /\ ohlcv = <<>>
    /\ result = Pending

Next ==
    \/ ParseArgs
    \/ MainCallsRunScreener
    \/ CallRunScreener
    \/ dispatch
    \/ get_exchange
    \/ fetch_spot_symbols
    \/ slice_top_n
    \/ buyonbreakout_run_step
    \/ rising3methods_run_step
    \/ run_return
    \/ print_results
    \/ run_screener_return

Spec == Init /\ [][Next]_vars

----------------------------------------------------------------------------
(* The breakout detector alone, on every series BreakoutSeries builds *)

InitBreakout ==
    /\ ProgInit
    /\ \E len \in 0..MaxLen, off \in MarkOffsets,
          peak \in {BaseClose, BaseClose + 2}, spike \in {0, SpikeVolume},
          bv \in {0, 5}, cc \in (BaseClose - 1)..(BaseClose + CloseSpread),
          cv \in 0..MaxVolume :
         ohlcv = BreakoutSeries(len, off, peak, spike, bv, cc, cv)
    /\ result = Pending

AnalyzeBreakout ==
    /\ result = Pending
    /\ result' = buyonbreakout_analyze(ohlcv)
    /\ UNCHANGED <<progVars, ohlcv>>
    /\ UNCHANGED notifyVars

NextBreakout == AnalyzeBreakout

SpecBreakout == InitBreakout /\ [][NextBreakout]_vars

----------------------------------------------------------------------------
(* The rising-three detector alone *)

InitRising ==
    /\ ProgInit
    /\ \/ \* every first and fifth candle around a few middle ones, behind
          \* every prefix
          \E p \in Prefixes, c1 \in C1Candles, c2 \in MidFew, c3 \in MidFew,
             c4 \in MidFew, c5 \in C5Candles :
            ohlcv = p \o <<c1, c2, c3, c4, c5>>
       \/ \* every middle candle between a few first and fifth ones, behind
          \* every prefix
          \E p \in Prefixes, c1 \in C1Few, c2 \in MidCandles, c3 \in MidCandles,
             c4 \in MidCandles, c5 \in C5Few :
            ohlcv = p \o <<c1, c2, c3, c4, c5>>
       \/ \* too short to hold a window: the last 0..4 candles of a matching one
          \E k \in 0..4, c1 \in C1Few, c5 \in C5Few :
            LET m == Shaped(C1Open + 2, C1Open + 5, 0)
            IN  ohlcv = PySlice(<<c1, m, m, m, c5>>, 5 - k, 5)
    /\ result = Pending

AnalyzeRising ==
    /\ result = Pending
    /\ result' = rising3methods_analyze(ohlcv)
    /\ UNCHANGED <<progVars, ohlcv>>
    /\ UNCHANGED notifyVars

NextRising == AnalyzeRising

SpecRising == InitRising /\ [][NextRising]_vars

----------------------------------------------------------------------------
(* notification.py: DiscordNotifier.send_results *)

CHUNK_SIZE == 20
MaxResults == 41      \* longest result list handed to send_results

\* webhook_url after __init__: not set, a URL, or a text without a scheme.
NoWebhook == ""
WebhookUrls == {NoWebhook, "https://discord.com/api/webhooks/1/t",
                "discord.com/api/webhooks/1/t"}

\* Request(self.webhook_url, ...) raises ValueError ("unknown url type") for a
\* text without a scheme; the call stands before the try block of _post_embed.
request_raises(url) == url = "discord.com/api/webhooks/1/t"

\* What urlopen() can do with a request: answer with a status, or raise.
PostOutcomes == {"200", "204", "202", "HTTPError", "URLError", "Exception"}

\* _post_embed(embed): "True", "False", or the exception that leaves it.
post_embed(url, outcome) ==
    IF request_raises(url) THEN "ValueError"
    ELSE IF outcome \in {"200", "204"} THEN "True"
    ELSE "False"

\* The result list of a scan that matched n symbols, in the scan's order;
\* close is held in units of 0.00001 and volume in units of 0.001.
NotifyResults(n, strat) ==
    [k \in 1..n |->
        [symbol |-> [base |-> k, quote |-> "USDT"],
         signal |-> IF strat = "buyonbreakout" THEN "BUY_ON_BREAKOUT"
                    ELSE "RISING_3_METHODS",
         close |-> 1000 + k,
         volume |-> 5000 - 3 * k]]

\* symbol.split("/")[0] of a "BASE/QUOTE" symbol
ticker(symbol) == symbol.base

\* f"{x:.4f}" and f"{x:,.2f}": x, held with one more decimal than is shown,
\* is rounded to the decimals shown, a tie going to the even digit.
format_fixed(x) ==
    LET q == x \div 10
        r == x % 10
    IN  IF r > 5 \/ (r = 5 /\ q % 2 = 1) THEN q + 1 ELSE q

\* STRATEGY_META.get(strategy, _default_strategy_meta(strategy))["label"]
strategy_label(strat) ==
    IF strat \in {"buyonbreakout", "rising3methods"} THEN strat ELSE "default"

build_header_embed(strat, tf, result_count) ==
    [kind |-> "header",
     label |-> strategy_label(strat),
     timeframe |-> tf,
     result_count |-> result_count,
     color |-> IF result_count > 0 THEN "GREEN" ELSE "GREY",
     no_match_note |-> result_count = 0]

build_results_embed(chunk, index, total_chunks, strat, tf) ==
    [kind |-> "results",
     part |-> IF total_chunks > 1 THEN <<index + 1, total_chunks>> ELSE <<>>,
     fields |-> [k \in 1..Len(chunk) |->
                   [name |-> ticker(chunk[k].symbol),
                    signal |-> chunk[k].signal,
                    close |-> format_fixed(chunk[k].close),
                    volume |-> format_fixed(chunk[k].volume),
                    inline |-> TRUE]],
     label |-> strategy_label(strat),
     timeframe |-> tf]

\* [results[i:i + chunk_size] for i in range(0, len(results), chunk_size)]
chunks_of(rs) ==
    [c \in 1..((Len(rs) + CHUNK_SIZE - 1) \div CHUNK_SIZE) |->
        PySlice(rs, (c - 1) * CHUNK_SIZE, (c - 1) * CHUNK_SIZE + CHUNK_SIZE)]

Returned(v) == [kind |-> "return", value |-> v]
Raised(e) == [kind |-> "raise", error |-> e]

\* send_results up to its loop: the webhook test, the header message, the
\* early return for an empty list, the chunking.
send_results_header ==
    /\ pc = "send_results"
    /\ IF webhook_url = NoWebhook
       THEN /\ send_return' = <<Returned(FALSE)>>
            /\ pc' = "notified"
            /\ UNCHANGED <<posted, success, chunks, chunk_index>>
       ELSE \E out \in PostOutcomes :
              LET header == build_header_embed(strategy, timeframe, Len(results))
                  ok == post_embed(webhook_url, out)
              IN  IF ok = "ValueError"
                  THEN /\ send_return' = <<Raised("ValueError")>>
                       /\ pc' = "notified"
                       /\ UNCHANGED <<posted, success, chunks, chunk_index>>
                  ELSE /\ posted' = <<[embed |-> header, outcome |-> out]>>
                       /\ success' = (ok = "True")
                       /\ IF results = <<>>
                          THEN /\ send_return' = <<Returned(ok = "True")>>
                               /\ pc' = "notified"
                               /\ UNCHANGED <<chunks, chunk_index>>
                          ELSE /\ chunks' = chunks_of(results)
                               /\ chunk_index' = 0
                               /\ pc' = "chunks"
                               /\ UNCHANGED send_return
    /\ UNCHANGED <<entry, strategy, timeframe, top_n, exit_status, exchange, markets,
                   volume24h, symbols, loop_i, fetched, ohlcv, result, run_results,
                   results, printed, return_value, webhook_url>>

\* One turn of the loop over the chunks: build the embed, post it, and fold
\* the answer into success.
send_results_chunk ==
    /\ pc = "chunks"
    /\ chunk_index < Len(chunks)
    /\ \E out \in PostOutcomes :
         LET embed == build_results_embed(chunks[chunk_index + 1], chunk_index,
                                          Len(chunks), strategy, timeframe)
             ok == post_embed(webhook_url, out)
         IN  IF ok = "ValueError"
             THEN /\ send_return' = <<Raised("ValueError")>>
                  /\ pc' = "notified"
                  /\ UNCHANGED <<posted, success, chunk_index>>
             ELSE /\ posted' = Append(posted, [embed |-> embed, outcome |-> out])
                  /\ success' = (success /\ ok = "True")
                  /\ chunk_index' = chunk_index + 1
                  /\ UNCHANGED <<pc, send_return>>
    /\ UNCHANGED <<entry, strategy, timeframe, top_n, exit_status, exchange, markets,
                   volume24h, symbols, loop_i, fetched, ohlcv, result, run_results,
                   results, printed, return_value, webhook_url, chunks>>

\* return success
send_results_return ==
    /\ pc = "chunks"
    /\ chunk_index = Len(chunks)
    /\ send_return' = <<Returned(success)>>
    /\ pc' = "notified"
    /\ UNCHANGED <<entry, strategy, timeframe, top_n, exit_status, exchange, markets,
                   volume24h, symbols, loop_i, fetched, ohlcv, result, run_results,
                   results, printed, return_value, webhook_url, posted, success, chunks,
                   chunk_index>>

\* A notifier after __init__, about to send the result list of a scan.
InitNotify ==
    /\ pc = "send_results"
    /\ entry = "call"
    /\ strategy \in StrategyArgs
    /\ timeframe = "4H"
    /\ top_n = <<>>
    /\ exit_status = <<>>
    /\ exchange = FALSE
    /\ markets = <<>>
    /\ volume24h = <<>>
    /\ symbols = <<>>
    /\ loop_i = 0
    /\ fetched = <<>>
    /\ ohlcv = <<>>
    /\ result = Pending
    /\ run_results = <<>>
    /\ \E n \in 0..MaxResults : results = NotifyResults(n, strategy)
    /\ printed = <<>>
    /\ return_value = [kind |-> "pending"]
    /\ webhook_url \in WebhookUrls
    /\ posted = <<>>
    /\ success = FALSE
    /\ chunks = <<>>
    /\ chunk_index = 0
    /\ send_return = <<>>

NextNotify ==
    \/ send_results_header
    \/ send_results_chunk
    \/ send_results_return

SpecNotify == InitNotify /\ [][NextNotify]_vars

----------------------------------------------------------------------------
(* Claims about the scan and the dispatcher, checked under Spec *)

AfterRun == pc \in {"print_results", "return", "returned"}

\* C1: run() of either strategy fetches every symbol exactly once, in list
\* order, whatever each fetch answers or raises, analyses every non-empty
\* series it got, and returns normally: the process never ends inside the
\* scan, and when run() has returned every symbol has been fetched.
C1_ScanFailureIsolation ==
    /\ Len(fetched) = loop_i
    /\ Len(fetched) <= Len(symbols)
    /\ \A k \in 1..Len(fetched) :
         /\ fetched[k].symbol = symbols[k]
         /\ (fetched[k].outcome.kind = "ok" /\ fetched[k].outcome.ohlcv # <<>>)
              => fetched[k].analysed # NotAnalysed
    /\ AfterRun => Len(fetched) = Len(symbols)
    /\ fetched # <<>> => pc # "exited"

\* A finished breakout scan of three symbols whose first fetch raised a
\* network error, whose second a non-network error, and whose third was
\* fetched, analysed and matched.
C1_Witness ==
    /\ pc = "returned"
    /\ strategy = "buyonbreakout"
    /\ Len(fetched) = 3
    /\ fetched[1].outcome.kind = "NetworkError"
    /\ fetched[2].outcome.kind = "Exception"
    /\ IsSignal(fetched[3].analysed)
    /\ Len(results) = 1

\* The detector of a strategy.
Detector(strat, o) ==
    IF strat = "buyonbreakout" THEN buyonbreakout_analyze(o)
    ELSE rising3methods_analyze(o)

\* The fetches that got a non-empty series on which the detector returned a
\* Signal, in the order they were made.
Matched ==
    SelectSeq(fetched,
              LAMBDA f : /\ f.outcome.kind = "ok"
                         /\ f.outcome.ohlcv # <<>>
                         /\ IsSignal(Detector(strategy, f.outcome.ohlcv)))

\* C2: the list run() returns holds, in input order, one entry per symbol
\* whose fetch gave a non-empty series on which the detector returned a
\* Signal, each entry being that Signal with its symbol; nothing else.
C2_ScanResultContentAndOrder ==
    AfterRun =>
        /\ [k \in 1..Len(fetched) |-> fetched[k].symbol] = symbols
        /\ Len(results) = Len(Matched)
        /\ \A k \in 1..Len(results) :
             LET sig == Detector(strategy, Matched[k].outcome.ohlcv)
             IN  /\ results[k].symbol = Matched[k].symbol
                 /\ results[k].signal = sig.signal
                 /\ results[k].close = sig.close
                 /\ results[k].volume = sig.volume
                 /\ DOMAIN results[k] = DOMAIN sig \cup {"symbol"}

\* A finished rising-three scan of three symbols: the first and the third
\* matched, the one between them answered an empty series.
C2_Witness ==
    /\ pc = "returned"
    /\ strategy = "rising3methods"
    /\ Len(fetched) = 3
    /\ fetched[2].outcome = [kind |-> "ok", ohlcv |-> <<>>]
    /\ Len(results) = 2
    /\ results[1].symbol = fetched[1].symbol
    /\ results[2].symbol = fetched[3].symbol
    /\ results[1].symbol < results[2].symbol

\* C7: run_screener called with a strategy name outside {buyonbreakout,
\* rising3methods} ends with a failure status, and no exchange client is
\* built, no markets are loaded, no candles are fetched and nothing is
\* rendered.
C7_UnknownStrategyAborts ==
    (entry = "call" /\ strategy \notin {"buyonbreakout", "rising3methods"}) =>
        /\ exchange = FALSE
        /\ markets = <<>>
        /\ fetched = <<>>
        /\ printed = <<>>
        /\ pc \in {"dispatch", "exited"}
        /\ pc = "exited" => (exit_status # <<>> /\ exit_status[1] # 0)

C7_Witness ==
    /\ entry = "call"
    /\ strategy = "macross"
    /\ pc = "exited"
    /\ exit_status = <<1>>
    /\ exchange = FALSE

\* C8 as claimed: for a known strategy run_screener returns the list of
\* Signals that run() returned.
C8_ReturnsSignals ==
    pc = "returned" => return_value = [kind |-> "list", value |-> run_results]

\* C8 as amended: for a known strategy run_screener hands the list that
\* run() returned, in the same order, to print_results, and returns None.
C8_PrintsSignalsReturnsNone ==
    pc = "returned" =>
        /\ strategy \in {"buyonbreakout", "rising3methods"}
        /\ return_value = [kind |-> "None"]
        /\ Len(printed) = 1
        /\ printed[1].total = Len(run_results)
        /\ Len(printed[1].rows) = Len(run_results)
        /\ \A k \in 1..Len(run_results) :
             /\ printed[1].rows[k].symbol = run_results[k].symbol
             /\ printed[1].rows[k].signal = run_results[k].signal
             /\ printed[1].rows[k].close = run_results[k].close

\* run_screener returned after a scan that matched two symbols.
C8_Witness ==
    /\ pc = "returned"
    /\ entry = "call"
    /\ Len(run_results) = 2
    /\ printed[1].rows[1].symbol # printed[1].rows[2].symbol

\* The active spot pairs of the quote currency.
ActiveSpotPairs ==
    { s \in DOMAIN markets[1] :
        markets[1][s].spot /\ markets[1][s].active /\ markets[1][s].quote = DEFAULT_QUOTE }

\* C9: with top_n set to N >= 1, the symbols handed to the scanner are the N
\* active spot pairs of highest volume (all of them when there are fewer),
\* and no more than N.
C9_TopNByVolume ==
    (pc \in {"run", "print_results", "return", "returned"}
       /\ top_n # <<>> /\ top_n[1] >= 1) =>
        LET handed == { symbols[k] : k \in 1..Len(symbols) }
        IN  /\ Len(symbols) <= top_n[1]
            /\ Cardinality(handed) = Min2(top_n[1], Cardinality(ActiveSpotPairs))
            /\ handed \subseteq ActiveSpotPairs
            /\ \A s \in handed, t \in ActiveSpotPairs \ handed :
                 volume24h[1][s] > volume24h[1][t]

\* C10: an invocation of the documented form (--strategy buyonbreakout or
\* rising3methods, --tf 4H or 1D) is accepted by argument parsing and, when
\* the process has ended, the results have been rendered.
C10_EndToEnd ==
    (entry = "cli" /\ strategy \in VALID_STRATEGIES /\ timeframe \in {"4H", "1D"}) =>
        /\ exit_status # <<2>>
        /\ pc \in {"exited", "returned"} => printed # <<>>

\* What holds instead of C10: no invocation through main() renders anything.
CliNeverRenders ==
    entry = "cli" => (printed = <<>> /\ fetched = <<>> /\ exchange = FALSE)

----------------------------------------------------------------------------
(* Claims about the breakout detector, checked under SpecBreakout *)

\* The claim's own reading of a candle series: the 20 candles immediately
\* preceding the last one.
Preceding20(o) == (Len(o) - 20)..(Len(o) - 1)

RECURSIVE VolumeOver(_, _)
VolumeOver(o, idx) ==
    IF idx = {} THEN 0
    ELSE LET i == CHOOSE j \in idx : TRUE
         IN  o[i].volume + VolumeOver(o, idx \ {i})

ClosesAboveLookback(o) ==
    \A i \in Preceding20(o) : o[Len(o)].close > o[i].close
VolumeAboveMean(o) ==
    20 * o[Len(o)].volume > VolumeOver(o, Preceding20(o))

\* C3: on a series of at least 22 candles the detector returns a Signal
\* exactly when the last close is above every close of the 20 candles before
\* it and the last volume is above their mean volume, and None otherwise.
C3_BreakoutMatchCondition ==
    (result # Pending /\ Len(ohlcv) >= 22) =>
        /\ IsSignal(result) <=> (ClosesAboveLookback(ohlcv) /\ VolumeAboveMean(ohlcv))
        /\ ~IsSignal(result) => result = None

\* What does hold of the match condition: it decides between a Signal and
\* None whenever the 20 lookback volumes are not all zero.
BreakoutMatchUnlessZeroMean ==
    (result # Pending /\ Len(ohlcv) >= 22
       /\ VolumeOver(ohlcv, Preceding20(ohlcv)) # 0) =>
        /\ IsSignal(result) <=> (ClosesAboveLookback(ohlcv) /\ VolumeAboveMean(ohlcv))
        /\ ~IsSignal(result) => result = None

C5_BreakoutTotal ==
    (result # Pending /\ \A i \in 1..Len(ohlcv) : ohlcv[i].volume >= 0) =>
        result.signal # "raise"

\* The example of the claim: 20 lookback closes of 10 with mean volume 5, a
\* current close of 11 and a current volume of 6.
LookbackOfTenMeanFive(o) ==
    /\ Len(o) >= 22
    /\ \A i \in Preceding20(o) : o[i].close = 10
    /\ VolumeOver(o, Preceding20(o)) = 5 * 20
    /\ o[Len(o)].close = 11
    /\ o[Len(o)].volume = 6

\* C13: a Signal of the breakout detector carries the last candle's close and
\* volume, prev_high = the greatest close of the 20 lookback candles,
\* avg_volume = their mean volume, and vol_ratio = current volume / mean
\* volume rounded to 2 decimals (the hundredth nearest to the quotient); in
\* the example prev_high = 10, avg_volume = 5 and vol_ratio = 1.2.
C13_BreakoutSignalFields ==
    IsSignal(result) =>
        LET last == ohlcv[Len(ohlcv)]
            total == VolumeOver(ohlcv, Preceding20(ohlcv))
        IN  /\ result.close = last.close
            /\ result.volume = last.volume
            /\ \E i \in Preceding20(ohlcv) : result.prev_high = ohlcv[i].close
            /\ \A i \in Preceding20(ohlcv) : result.prev_high >= ohlcv[i].close
            /\ 20 * result.avg_volume.num = total * result.avg_volume.den
            /\ 2 * Abs(result.vol_ratio * total - 100 * 20 * last.volume) <= total
            /\ LookbackOfTenMeanFive(ohlcv) =>
                  /\ result.prev_high = 10
                  /\ result.avg_volume.num = 5 * result.avg_volume.den
                  /\ result.vol_ratio = 120

\* The example series analysed, and a Signal returned for it.
C13_Witness ==
    /\ IsSignal(result)
    /\ LookbackOfTenMeanFive(ohlcv)

\* A Signal whose quotient is not a whole number of hundredths (7 over a
\* mean of 6), so that the rounding decides the field.
RoundedRatioReturned ==
    /\ IsSignal(result)
    /\ (100 * 20 * ohlcv[Len(ohlcv)].volume)
          % VolumeOver(ohlcv, Preceding20(ohlcv)) # 0

----------------------------------------------------------------------------
(* Claim about the rising-three detector, checked under SpecRising *)

\* The claim's own reading of the last five candles c1..c5.
C(o, k) == o[Len(o) - 5 + k]

LargeBody(c) == 10 * Abs(c.close - c.open) >= 6 * (c.high - c.low)

RisingPattern(o) ==
    /\ Len(o) >= 5
    /\ C(o, 1).close > C(o, 1).open
    /\ C(o, 1).high - C(o, 1).low # 0
    /\ LargeBody(C(o, 1))
    /\ \A k \in 2..4 :
         /\ C(o, 1).open < C(o, k).open /\ C(o, k).open < C(o, 1).close
         /\ C(o, 1).open < C(o, k).close /\ C(o, k).close < C(o, 1).close
         /\ 10 * Abs(C(o, k).close - C(o, k).open)
              <= 5 * Abs(C(o, 1).close - C(o, 1).open)
    /\ C(o, 5).close > C(o, 5).open
    /\ (C(o, 5).high - C(o, 5).low > 0 => LargeBody(C(o, 5)))
    /\ C(o, 5).close > C(o, 1).close

RisingPatternBesidesC5Body(o) ==
    /\ Len(o) >= 5
    /\ C(o, 1).close > C(o, 1).open
    /\ C(o, 1).high - C(o, 1).low # 0
    /\ LargeBody(C(o, 1))
    /\ \A k \in 2..4 :
         /\ C(o, 1).open < C(o, k).open /\ C(o, k).open < C(o, 1).close
         /\ C(o, 1).open < C(o, k).close /\ C(o, k).close < C(o, 1).close
         /\ 10 * Abs(C(o, k).close - C(o, k).open)
              <= 5 * Abs(C(o, 1).close - C(o, 1).open)
    /\ C(o, 5).close > C(o, 5).open
    /\ C(o, 5).close > C(o, 1).close

\* C14: a first candle of range 0 always gives None, while a fifth candle of
\* range 0 only skips the large-body test: a bullish fifth candle of range 0
\* closing above c1's close, the other conditions holding, gives a Signal.
C14_ZeroRangeAsymmetry ==
    (result # Pending /\ Len(ohlcv) >= 5) =>
        /\ C(ohlcv, 1).high - C(ohlcv, 1).low = 0 => result = None
        /\ (/\ C(ohlcv, 5).high - C(ohlcv, 5).low = 0
            /\ RisingPatternBesidesC5Body(ohlcv)) => IsSignal(result)

\* A Signal returned for a window whose fifth candle has range 0.
C14_Witness ==
    /\ IsSignal(result)
    /\ C(ohlcv, 5).high - C(ohlcv, 5).low = 0
    /\ C(ohlcv, 5).close > C(ohlcv, 5).open

\* A bullish first candle of range 0 before candles that otherwise fit,
\* analysed: None.
ZeroRangeFirstRejected ==
    /\ result = None
    /\ Len(ohlcv) >= 5
    /\ C(ohlcv, 1).high - C(ohlcv, 1).low = 0
    /\ C(ohlcv, 1).close > C(ohlcv, 1).open
    /\ \A k \in 2..4 :
         /\ C(ohlcv, 1).open < C(ohlcv, k).open /\ C(ohlcv, k).open < C(ohlcv, 1).close
         /\ C(ohlcv, 1).open < C(ohlcv, k).close /\ C(ohlcv, k).close < C(ohlcv, 1).close
    /\ C(ohlcv, 5).close > C(ohlcv, 1).close

----------------------------------------------------------------------------
(* Claims about the notifier, checked under SpecNotify *)

NotifyDone == pc = "notified"

\* ceil(n / 20), as the least m with 20 * m >= n.
CeilOver20(n) == CHOOSE m \in 0..n : 20 * m >= n /\ \A j \in 0..n : 20 * j >= n => m <= j

RECURSIVE CarriedFrom(_, _)
\* The signals carried by the messages msgs[k..], in posting order.
CarriedFrom(msgs, k) ==
    IF k > Len(msgs) THEN <<>>
    ELSE msgs[k].embed.fields \o CarriedFrom(msgs, k + 1)

\* The header alone and first, then ceil(n/20) result messages of 1..20
\* signals whose concatenation is the input list.
HeaderThenChunks ==
    /\ Len(posted) = 1 + CeilOver20(Len(results))
    /\ posted[1].embed.kind = "header"
    /\ \A k \in 2..Len(posted) :
          /\ posted[k].embed.kind = "results"
          /\ Len(posted[k].embed.fields) \in 1..20
    /\ LET carried == CarriedFrom(posted, 2)
       IN  /\ Len(carried) = Len(results)
           /\ \A k \in 1..Len(results) :
                 /\ carried[k].name = results[k].symbol.base
                 /\ carried[k].signal = results[k].signal

\* C11: with a configured webhook, send_results posts the header first as its
\* own message, then ceil(n/20) result messages each carrying between 1 and 20
\* signals whose concatenation in posting order equals the input list; for an
\* empty list only the header is posted.
C11_NotificationChunking ==
    (NotifyDone /\ webhook_url # NoWebhook) => HeaderThenChunks

\* The chunking of C11 for every webhook text that urllib accepts as a URL.
ChunkingWithUrl ==
    (NotifyDone /\ webhook_url # NoWebhook /\ ~request_raises(webhook_url))
        => HeaderThenChunks

\* A posted message was delivered: the webhook answered 200 or 204.
Delivered(msg) == msg.outcome \in {"200", "204"}

\* The outcome claimed for send_results: a boolean, True exactly when a
\* webhook is configured and every posted message was delivered; nothing
\* posted without a webhook; every message posted whatever the failures.
ClaimedOutcome ==
    /\ send_return = <<Returned(/\ webhook_url # NoWebhook
                                /\ \A k \in 1..Len(posted) : Delivered(posted[k]))>>
    /\ webhook_url = NoWebhook => posted = <<>>
    /\ webhook_url # NoWebhook => Len(posted) = 1 + CeilOver20(Len(results))

\* C12: send_results returns True if and only if a webhook URL is configured
\* and every posted message (the header and every chunk) was delivered; with
\* no URL it returns False without posting; a failed post makes the result
\* False without preventing the remaining chunks from being posted.
C12_SendResultsOutcome ==
    NotifyDone => ClaimedOutcome

\* The outcome of C12 for every webhook text that urllib accepts as a URL.
OutcomeWithUrl ==
    (NotifyDone /\ ~request_raises(webhook_url)) => ClaimedOutcome

\* A failed chunk in the middle of three, with the last one still posted.
FailedPostKeepsPosting ==
    /\ NotifyDone
    /\ Len(posted) = 4
    /\ ~Delivered(posted[3])
    /\ Delivered(posted[4])
    /\ send_return = <<Returned(FALSE)>>

====
